---- MODULE Spec2Model ----
(***************************************************************************)
(* The Elixir provider of nixpacks (src/providers/elixir.rs): the textual  *)
(* scan of mix.exs (parse_mix_project), the resolution of the declared     *)
(* Elixir version against AVAILABLE_ELIXIR_VERSIONS (get_closest_version,  *)
(* get_nix_elixir_pkg) and the phases the provider derives from them.      *)
(*                                                                         *)
(* Text is a TLA+ string; a character is a string of length one.  The      *)
(* three regular expressions of the source are modelled by what the regex  *)
(* crate does with them: leftmost match, greedy repetitions preferred      *)
(* longest-first, captures_iter resuming after the end of each match.      *)
(* An f64 is modelled by its value in hundredths, which is exact for every *)
(* number the provider compares (one digit on each side of the point, and  *)
(* the five catalog floors).                                               *)
(***************************************************************************)
EXTENDS Integers, Sequences, FiniteSets, TLC

VARIABLES mix_exs, str, call

vars == <<mix_exs, str, call>>

(***************************************************************************)
(* Bounds of the model.                                                    *)
(***************************************************************************)
\* The longest version expression handed to get_closest_version directly.
MaxVerLen == 4
\* The largest number of fragments a generated mix.exs is made of.
MaxFragments == 2

(***************************************************************************)
(* Option and Result.                                                      *)
(***************************************************************************)
None == <<>>
Some(x) == <<x>>
Ok(x) == [kind |-> "Ok", value |-> x]
Err(e) == [kind |-> "Err", value |-> e]
Panic(e) == [kind |-> "Panic", value |-> e]

(***************************************************************************)
(* Characters.                                                             *)
(***************************************************************************)
Ch(s, i) == SubSeq(s, i, i)

Min(S) == CHOOSE x \in S : \A y \in S : x <= y
Max(S) == CHOOSE x \in S : \A y \in S : x >= y

\* \s and \d of the regex crate, on the characters the model draws from.
IsSpace(c) == c \in {" ", "\t", "\n", "\r", "\f"}
IsDigit(c) == c \in {"0", "1", "2", "3", "4", "5", "6", "7", "8", "9"}
\* "." of the regex crate: any character but the line feed.
IsDot(c) == c # "\n"

DigitValue(c) ==
    CASE c = "0" -> 0 [] c = "1" -> 1 [] c = "2" -> 2 [] c = "3" -> 3
      [] c = "4" -> 4 [] c = "5" -> 5 [] c = "6" -> 6 [] c = "7" -> 7
      [] c = "8" -> 8 [] c = "9" -> 9

\* The last index of the longest run of "." characters that starts at i
\* (i - 1 when the run is empty).
RECURSIVE DotRunEnd(_, _)
DotRunEnd(s, i) ==
    IF i > Len(s) \/ ~IsDot(Ch(s, i)) THEN i - 1 ELSE DotRunEnd(s, i + 1)

\* The same for [^\s] ...
RECURSIVE NonSpaceRunEnd(_, _)
NonSpaceRunEnd(s, i) ==
    IF i > Len(s) \/ IsSpace(Ch(s, i)) THEN i - 1
    ELSE NonSpaceRunEnd(s, i + 1)

\* ... and for [^,], which a line feed does not stop.
RECURSIVE NonCommaRunEnd(_, _)
NonCommaRunEnd(s, i) ==
    IF i > Len(s) \/ Ch(s, i) = "," THEN i - 1 ELSE NonCommaRunEnd(s, i + 1)

NoMatch == [found |-> FALSE]

(***************************************************************************)
(* get_closest_version and get_nix_elixir_pkg.                             *)
(***************************************************************************)
\* A variant of the catalog whose floors ascend (1.9 written 1.09): with it
\* the resolver returns the later entries, which C10 rules out.
AVAILABLE_ELIXIR_VERSIONS_ascending ==
    << [floor |-> 109, pkg |-> "elixir_1_9"],
       [floor |-> 110, pkg |-> "elixir_1_10"],
       [floor |-> 111, pkg |-> "elixir_1_11"],
       [floor |-> 112, pkg |-> "elixir_1_12"],
       [floor |-> 113, pkg |-> "elixir"] >>

\* Floors in hundredths: the f64 literal 1.10 is the number 1.1.
AVAILABLE_ELIXIR_VERSIONS ==
    << [floor |-> 190, pkg |-> "elixir_1_9"],
       [floor |-> 110, pkg |-> "elixir_1_10"],
       [floor |-> 111, pkg |-> "elixir_1_11"],
       [floor |-> 112, pkg |-> "elixir_1_12"],
       [floor |-> 113, pkg |-> "elixir"] >>

DEFAULT_ELIXIR_PKG_NAME == "elixir"

\* Regex::new("\\d.\\d") matched at index i.
VersionMatchAt(s, i) ==
    /\ i + 2 <= Len(s)
    /\ IsDigit(Ch(s, i))
    /\ IsDot(Ch(s, i + 1))
    /\ IsDigit(Ch(s, i + 2))

\* re.captures(str): group 0 of the leftmost match.
VersionCapture(s) ==
    LET starts == {i \in 1..Len(s) : VersionMatchAt(s, i)}
    IN  IF starts = {} THEN None
        ELSE Some(SubSeq(s, Min(starts), Min(starts) + 2))

Pow10(n) == IF n = 0 THEN 1 ELSE IF n = 1 THEN 10 ELSE IF n = 2 THEN 100
            ELSE IF n = 3 THEN 1000 ELSE IF n = 4 THEN 10000
            ELSE IF n = 5 THEN 100000 ELSE 1000000

\* str::parse::<f64> of a three-character token digit, any, digit: "d.d" is
\* a decimal, "ddd" an integer, "ded" and "dEd" a number with an exponent
\* (from ten million on, one value above every number it is compared with);
\* any other middle character is a ParseFloatError.
parse_f64(tok) ==
    LET a == DigitValue(Ch(tok, 1))
        m == Ch(tok, 2)
        b == DigitValue(Ch(tok, 3))
    IN  IF m = "." THEN Ok(100 * a + 10 * b)
        ELSE IF IsDigit(m) THEN Ok(100 * (100 * a + 10 * DigitValue(m) + b))
        ELSE IF m \in {"e", "E"}
        THEN Ok(IF a = 0 THEN 0 ELSE IF b <= 6 THEN 100 * a * Pow10(b)
                ELSE 2000000000)
        ELSE Err("ParseFloatError")

\* A variant of the search that compares with != instead of >=: with it a
\* higher version can resolve to a lower floor, which C9 rules out.
FindClosest_ne(version) ==
    LET hits == {i \in 1..Len(AVAILABLE_ELIXIR_VERSIONS) :
                    AVAILABLE_ELIXIR_VERSIONS[i].floor # version}
    IN  IF hits = {} THEN None ELSE Some(AVAILABLE_ELIXIR_VERSIONS[Min(hits)])

\* .iter().find(|(version_f64, _)| version_f64 >= &version)
FindClosest(version) ==
    LET hits == {i \in 1..Len(AVAILABLE_ELIXIR_VERSIONS) :
                    AVAILABLE_ELIXIR_VERSIONS[i].floor >= version}
    IN  IF hits = {} THEN None ELSE Some(AVAILABLE_ELIXIR_VERSIONS[Min(hits)])

get_closest_version(s) ==
    LET version_capture == VersionCapture(s)
    IN  IF version_capture # None
        THEN LET version == parse_f64(version_capture[1])
             IN  IF version.kind = "Err" THEN version
                 ELSE LET closest_version == FindClosest(version.value)
                      IN  IF closest_version # None
                          THEN Ok(Some(closest_version[1].pkg))
                          ELSE Ok(None)
        ELSE Ok(None)

MixProject(app_name, elixir_version, is_escript) ==
    [app_name |-> app_name, elixir_version |-> elixir_version,
     is_escript |-> is_escript]

\* A variant that falls back to the first catalog entry instead of
\* DEFAULT_ELIXIR_PKG_NAME, which C6 rules out.
get_nix_elixir_pkg_first(mix_project) ==
    IF mix_project # None /\ mix_project[1].elixir_version # None
    THEN LET r == get_closest_version(mix_project[1].elixir_version[1])
         IN  IF r.kind = "Err" THEN r
             ELSE IF r.value # None THEN Ok(r.value[1])
             ELSE Ok(AVAILABLE_ELIXIR_VERSIONS[1].pkg)
    ELSE Ok(AVAILABLE_ELIXIR_VERSIONS[1].pkg)

get_nix_elixir_pkg(mix_project) ==
    IF mix_project # None /\ mix_project[1].elixir_version # None
    THEN LET r == get_closest_version(mix_project[1].elixir_version[1])
         IN  IF r.kind = "Err" THEN r
             ELSE IF r.value # None THEN Ok(r.value[1])
             ELSE Ok(DEFAULT_ELIXIR_PKG_NAME)
    ELSE Ok(DEFAULT_ELIXIR_PKG_NAME)

(***************************************************************************)
(* parse_mix_project.                                                      *)
(***************************************************************************)
\* Regex::new("@(.+)\\s\"(.+)\"") matched at index i: "@", group 1 up to
\* index j - 1, the white space at j, the quote at j + 1, group 2 up to
\* index k - 1 and the closing quote at k.  Both groups are greedy: the
\* longest group 1 that lets the rest match, then the longest group 2.
SuperglobalMatchAt(s, i) ==
    IF i > Len(s) \/ Ch(s, i) # "@" THEN NoMatch
    ELSE
    LET Closings(j) == {k \in j + 3..DotRunEnd(s, j + 2) : Ch(s, k) = "\""}
        splits == {j \in i + 2..DotRunEnd(s, i + 1) + 1 :
                      /\ j + 1 <= Len(s)
                      /\ IsSpace(Ch(s, j))
                      /\ Ch(s, j + 1) = "\""
                      /\ Closings(j) # {}}
    IN  IF splits = {} THEN NoMatch
        ELSE LET j == Max(splits)
                 k == Max(Closings(j))
             IN  [found |-> TRUE,
                  key |-> SubSeq(s, i + 1, j - 1),
                  value |-> SubSeq(s, j + 2, k - 1),
                  end |-> k]

\* (?m)$ at index p: the end of the text, or just before a line feed.
EndOfLine(s, p) == p = Len(s) + 1 \/ Ch(s, p) = "\n"

\* Regex::new("(?m)([^\\s]+):\\s([^,]+)(?:,|$)") matched at index i: group 1
\* up to index j - 1, the colon at j, the white space at j + 1, group 2 up
\* to index e, then a comma (consumed) or the end of a line (not consumed).
MixPropertyMatchAt(s, i) ==
    IF i > Len(s) \/ IsSpace(Ch(s, i)) THEN NoMatch
    ELSE
    LET Ends(j) == {e \in j + 2..NonCommaRunEnd(s, j + 2) :
                       \/ e + 1 <= Len(s) /\ Ch(s, e + 1) = ","
                       \/ EndOfLine(s, e + 1)}
        colons == {j \in i + 1..NonSpaceRunEnd(s, i) :
                      /\ Ch(s, j) = ":"
                      /\ j + 1 <= Len(s)
                      /\ IsSpace(Ch(s, j + 1))
                      /\ Ends(j) # {}}
    IN  IF colons = {} THEN NoMatch
        ELSE LET j == Max(colons)
                 e == Max(Ends(j))
             IN  [found |-> TRUE,
                  key |-> SubSeq(s, i, j - 1),
                  value |-> SubSeq(s, j + 2, e),
                  end |-> IF e + 1 <= Len(s) /\ Ch(s, e + 1) = ","
                          THEN e + 1 ELSE e]

\* HashMap::insert: a later value of the same key replaces the earlier one.
Insert(map, key, value) ==
    [x \in DOMAIN map \cup {key} |-> IF x = key THEN value ELSE map[x]]

\* The loop over re_superglobal.captures_iter: starts holds the indices at
\* which the pattern matches, and the next capture is the leftmost match at
\* index pos or later.
RECURSIVE CollectSuperglobals(_, _, _, _)
CollectSuperglobals(s, starts, pos, superglobals) ==
    LET left == {i \in starts : i >= pos}
    IN  IF left = {} THEN superglobals
        ELSE LET capture == SuperglobalMatchAt(s, Min(left))
             IN  CollectSuperglobals(s, starts, capture.end + 1,
                     Insert(superglobals, capture.key, capture.value))

parse_with_superglobal(superglobals, value) ==
    IF value \in DOMAIN superglobals THEN Some(superglobals[value])
    ELSE Some(value)

\* One turn of the loop over re_mix_property.captures_iter: the match arm.
SetProperty(project, key, parsed_value) ==
    CASE key = "app" -> [project EXCEPT !.app_name = parsed_value]
      [] key = "elixir" -> [project EXCEPT !.elixir_version = parsed_value]
      [] key = "escript" -> [project EXCEPT !.is_escript = TRUE]
      [] OTHER -> project

\* The loop over re_mix_property.captures_iter, in the same way.
RECURSIVE CollectProperties(_, _, _, _, _)
CollectProperties(s, starts, pos, superglobals, project) ==
    LET left == {i \in starts : i >= pos}
    IN  IF left = {} THEN project
        ELSE LET capture == MixPropertyMatchAt(s, Min(left))
                 parsed_value ==
                     parse_with_superglobal(superglobals, capture.value)
             IN  CollectProperties(s, starts, capture.end + 1, superglobals,
                     SetProperty(project, capture.key, parsed_value))

\* file is the project's mix.exs: None when the project has none.  Reading
\* a mix.exs that exists is taken to succeed.  A capture of either pattern
\* has its three groups, so no turn of a loop is skipped.
parse_mix_project(file) ==
    IF file = None THEN Ok(None)
    ELSE LET mix_exs_contents == file[1]
             indices == 1..Len(mix_exs_contents)
             superglobals ==
                 CollectSuperglobals(mix_exs_contents,
                     {i \in indices :
                         SuperglobalMatchAt(mix_exs_contents, i).found},
                     1, <<>>)
         IN  Ok(Some(CollectProperties(mix_exs_contents,
                     {i \in indices :
                         MixPropertyMatchAt(mix_exs_contents, i).found},
                     1, superglobals, MixProject(None, None, FALSE))))

(***************************************************************************)
(* The Provider implementation.  Every operation takes the project's       *)
(* mix.exs (None when the project has none).                               *)
(***************************************************************************)
SetupPhase(pkgs) == [phase |-> "setup", pkgs |-> pkgs]
InstallPhase(cmd) == [phase |-> "install", cmd |-> cmd]
BuildPhase(cmd) == [phase |-> "build", cmd |-> cmd]
StartPhase(cmd) == [phase |-> "start", cmd |-> cmd]

detect(file) == Ok(file # None)

setup(file) ==
    LET mix_project == parse_mix_project(file)
        nix_pkg == get_nix_elixir_pkg(mix_project.value)
    IN  IF nix_pkg.kind = "Err" THEN nix_pkg
        ELSE Ok(Some(SetupPhase(<<nix_pkg.value>>)))

install(file) == Ok(Some(InstallPhase("mix deps.get")))

build(file) ==
    LET mix_project == parse_mix_project(file).value
    IN  IF /\ mix_project # None
           /\ mix_project[1].is_escript
           /\ mix_project[1].app_name # None
        THEN Ok(Some(BuildPhase("mix escript.build")))
        ELSE Ok(None)

\* The length in bytes of a character's UTF-8 encoding: one for ASCII, two
\* for the Latin-1 letter the model draws from besides.
TwoByteChars == {"é"}

Utf8Len(c) == IF c \in TwoByteChars THEN 2 ELSE 1

\* s[1..] of a String: the text from byte 1 on, and a panic when byte 1 is
\* past the end or inside a character.
SliceFrom1(s) ==
    IF Len(s) = 0 THEN Panic("byte index 1 is out of bounds")
    ELSE IF Utf8Len(Ch(s, 1)) # 1
    THEN Panic("byte index 1 is not a char boundary")
    ELSE Ok(SubSeq(s, 2, Len(s)))

\* A variant that keeps the whole application name, which C4 rules out.
start_whole_name(file) ==
    LET mix_project == parse_mix_project(file).value
    IN  IF /\ mix_project # None
           /\ mix_project[1].is_escript
           /\ mix_project[1].app_name # None
        THEN Ok(Some(StartPhase("./" \o mix_project[1].app_name[1])))
        ELSE Ok(Some(StartPhase("mix run --no-halt")))

start(file) ==
    LET mix_project == parse_mix_project(file).value
    IN  IF /\ mix_project # None
           /\ mix_project[1].is_escript
           /\ mix_project[1].app_name # None
        THEN LET rest == SliceFrom1(mix_project[1].app_name[1])
             IN  IF rest.kind = "Panic" THEN rest
                 ELSE Ok(Some(StartPhase("./" \o rest.value)))
        ELSE Ok(Some(StartPhase("mix run --no-halt")))

get_elixir_environment_variables == [MIX_ENV |-> "prod"]

environment_variables(file) == Ok(Some(get_elixir_environment_variables))

(***************************************************************************)
(* The inputs the specifications draw from.                                *)
(***************************************************************************)
\* The characters of a version expression handed to get_closest_version.
VerChars == {"0", "1", "2", "9", ".", "e", "x", "\n"}

RECURSIVE StringsUpTo(_, _)
StringsUpTo(chars, n) ==
    IF n = 0 THEN {""}
    ELSE LET shorter == StringsUpTo(chars, n - 1)
         IN  shorter \cup {s \o c : s \in shorter, c \in chars}

VersionExprs == StringsUpTo(VerChars, MaxVerLen)

\* The lines a generated mix.exs is made of.
Fragments ==
    { "@version \"1.10\"\n",
      "app: :demo,\n",
      "app: version\n",
      "app: éa,\n",
      "elixir: version,\n",
      "elixir: \"~> 1.12\",\n",
      "elixir: \"~> 2.0\",\n",
      "elixir: \"latest\",\n",
      "elixir: \"1 2\",\n",
      "escript: [],\n",
      "deps: deps(),\n" }

GeneratedManifests == StringsUpTo(Fragments, MaxFragments)

\* A project with an application name and a version requirement, no escript.
Scenario1 ==
    "defmodule MyApp.MixProject do\n"
    \o "  use Mix.Project\n"
    \o "\n"
    \o "  def project do\n"
    \o "    [\n"
    \o "      app: :my_app,\n"
    \o "      elixir: \"~> 1.12\",\n"
    \o "    ]\n"
    \o "  end\n"
    \o "end\n"

\* An escript project whose version requirement is a module attribute; the
\* three declarations in each of their orders.
Scenario2Lines ==
    { "      elixir: version,\n",
      "      escript: [main_module: Demo],\n",
      "      app: :demo,\n" }

Scenario2 ==
    { "defmodule Demo.MixProject do\n"
      \o "  use Mix.Project\n"
      \o "\n"
      \o "  @version \"1.10\"\n"
      \o "\n"
      \o "  def project do\n"
      \o "    [\n"
      \o l1 \o l2 \o l3
      \o "    ]\n"
      \o "  end\n"
      \o "end\n" :
      <<l1, l2, l3>> \in
          {p \in Scenario2Lines \X Scenario2Lines \X Scenario2Lines :
              {p[1], p[2], p[3]} = Scenario2Lines} }

Manifests == GeneratedManifests \cup {Scenario1} \cup Scenario2

NotCalled == [fn |-> "none", arg |-> None, ret |-> None]

(***************************************************************************)
(* Spec: the provider's operations on a project.                           *)
(***************************************************************************)
Init ==
    /\ mix_exs \in {None} \cup {Some(m) : m \in Manifests}
    /\ str = ""
    /\ call = NotCalled

Detect ==
    /\ call' = [fn |-> "detect", arg |-> mix_exs, ret |-> detect(mix_exs)]
    /\ UNCHANGED <<mix_exs, str>>

Setup ==
    /\ call' = [fn |-> "setup", arg |-> mix_exs, ret |-> setup(mix_exs)]
    /\ UNCHANGED <<mix_exs, str>>

Install ==
    /\ call' = [fn |-> "install", arg |-> mix_exs, ret |-> install(mix_exs)]
    /\ UNCHANGED <<mix_exs, str>>

Build ==
    /\ call' = [fn |-> "build", arg |-> mix_exs, ret |-> build(mix_exs)]
    /\ UNCHANGED <<mix_exs, str>>

Start ==
    /\ call' = [fn |-> "start", arg |-> mix_exs, ret |-> start(mix_exs)]
    /\ UNCHANGED <<mix_exs, str>>

EnvironmentVariables ==
    /\ call' = [fn |-> "environment_variables", arg |-> mix_exs,
                ret |-> environment_variables(mix_exs)]
    /\ UNCHANGED <<mix_exs, str>>

ParseMixProject ==
    /\ call' = [fn |-> "parse_mix_project", arg |-> mix_exs,
                ret |-> parse_mix_project(mix_exs)]
    /\ UNCHANGED <<mix_exs, str>>

Next ==
    \/ Detect
    \/ Setup
    \/ Install
    \/ Build
    \/ Start
    \/ EnvironmentVariables
    \/ ParseMixProject

Spec == Init /\ [][Next]_vars

(***************************************************************************)
(* SpecResolve: the version resolver on a version expression.              *)
(***************************************************************************)
InitResolve ==
    /\ mix_exs = None
    /\ str \in VersionExprs
    /\ call = NotCalled

GetClosestVersion ==
    /\ call' = [fn |-> "get_closest_version", arg |-> str,
                ret |-> get_closest_version(str)]
    /\ UNCHANGED <<mix_exs, str>>

\* The projects get_nix_elixir_pkg is handed: none, one that declares no
\* version, one that declares str.
GetNixElixirPkg ==
    \E mix_project \in {None, Some(MixProject(None, None, FALSE)),
                        Some(MixProject(None, Some(str), FALSE))} :
        /\ call' = [fn |-> "get_nix_elixir_pkg", arg |-> mix_project,
                    ret |-> get_nix_elixir_pkg(mix_project)]
        /\ UNCHANGED <<mix_exs, str>>

NextResolve ==
    \/ GetClosestVersion
    \/ GetNixElixirPkg

SpecResolve == InitResolve /\ [][NextResolve]_vars

(***************************************************************************)
(* Vocabulary of the properties.                                           *)
(***************************************************************************)
\* get_closest_version extracts a number from s: the pattern matches and the
\* match parses.
Extracts(s) ==
    /\ VersionCapture(s) # None
    /\ parse_f64(VersionCapture(s)[1]).kind = "Ok"

\* That number, in hundredths.
ExtractedVersion(s) == parse_f64(VersionCapture(s)[1]).value

CatalogIndices == 1..Len(AVAILABLE_ELIXIR_VERSIONS)

\* The floor of the catalog entry that carries the identifier pkg.
FloorOfPkg(pkg) ==
    AVAILABLE_ELIXIR_VERSIONS[
        CHOOSE i \in CatalogIndices : AVAILABLE_ELIXIR_VERSIONS[i].pkg = pkg
    ].floor

\* The version exceeds every catalog floor.
ExceedsCatalog(version) ==
    \A i \in CatalogIndices : AVAILABLE_ELIXIR_VERSIONS[i].floor < version

\* The text sub occurs in text at index i.
OccursAt(text, sub, i) ==
    /\ i + Len(sub) - 1 <= Len(text)
    /\ SubSeq(text, i, i + Len(sub) - 1) = sub

Contains(text, sub) == \E i \in 1..Len(text) : OccursAt(text, sub, i)

\* The MixProject of the project's mix.exs (None without a mix.exs).
Scanned == parse_mix_project(mix_exs).value

\* build and start take the escript branch.
EscriptBranch ==
    /\ Scanned # None
    /\ Scanned[1].is_escript
    /\ Scanned[1].app_name # None

(***************************************************************************)
(* C1: whenever get_closest_version extracts a number v and returns an     *)
(* identifier, it is the identifier of the catalog entry with the smallest *)
(* floor that is >= v.  Fails: the floors are not ascending as numbers     *)
(* (1.10 is 1.1), and the first entry, 1.9, is >= every v up to 1.9.       *)
(***************************************************************************)
C1_ReturnsSmallestFloorAtLeastVersion ==
    ( /\ call.fn = "get_closest_version"
      /\ Extracts(str)
      /\ call.ret.kind = "Ok"
      /\ call.ret.value # None )
    => \A i \in CatalogIndices :
           AVAILABLE_ELIXIR_VERSIONS[i].floor >= ExtractedVersion(str)
           => FloorOfPkg(call.ret.value[1]) <= AVAILABLE_ELIXIR_VERSIONS[i].floor

(***************************************************************************)
(* C2: the floors of AVAILABLE_ELIXIR_VERSIONS, as the numbers the         *)
(* resolver compares, are strictly increasing in catalog order, whenever   *)
(* get_closest_version scans it.  Fails: 1.9 is followed by 1.10, which is *)
(* 1.1.                                                                    *)
(***************************************************************************)
C2_FloorsStrictlyIncreasing ==
    call.fn = "get_closest_version"
    => \A i, j \in CatalogIndices :
           i < j => AVAILABLE_ELIXIR_VERSIONS[i].floor
                        < AVAILABLE_ELIXIR_VERSIONS[j].floor

(***************************************************************************)
(* C3: for a mix.exs that contains `app: :my_app,` and                     *)
(* `elixir: "~> 1.12",` and no escript key, setup selects elixir_1_12.     *)
(* Fails: the pattern captures "1.1" and the first catalog entry, 1.9, is  *)
(* >= 1.1.                                                                 *)
(***************************************************************************)
C3_Scenario1SelectsElixir_1_12 ==
    ( /\ call.fn = "setup"
      /\ mix_exs # None
      /\ Contains(mix_exs[1], "app: :my_app,")
      /\ Contains(mix_exs[1], "elixir: \"~> 1.12\",")
      /\ ~Contains(mix_exs[1], "escript:") )
    => call.ret = Ok(Some(SetupPhase(<<"elixir_1_12">>)))

(***************************************************************************)
(* C4, as stated: for a mix.exs that contains `@version "1.10"`,           *)
(* `elixir: version,`, `escript: [...]` and `app: :demo,`, build returns   *)
(* the build phase and start runs "./emo".  Fails: the recorded name is    *)
(* ":demo", whose first character is the colon.                            *)
(***************************************************************************)
IsScenario2(text) ==
    /\ Contains(text, "@version \"1.10\"")
    /\ Contains(text, "elixir: version,")
    /\ Contains(text, "escript: [")
    /\ Contains(text, "app: :demo,")

C4_Scenario2StartsEmo ==
    (mix_exs # None /\ call.fn \in {"build", "start"})
    => ( IsScenario2(mix_exs[1])
         => /\ call.fn = "build"
               => call.ret = Ok(Some(BuildPhase("mix escript.build")))
            /\ call.fn = "start"
               => call.ret = Ok(Some(StartPhase("./emo"))) )

(***************************************************************************)
(* C4, amended: for the mix.exs of Scenario2 (the constant `@version       *)
(* "1.10"` and the declarations `elixir: version,`, `escript:              *)
(* [main_module: Demo],` and `app: :demo,`, one to a line, in any order),  *)
(* build returns the build phase and start runs "./demo".                  *)
(***************************************************************************)
C4_Scenario2StartsDemo ==
    (mix_exs # None /\ call.fn \in {"build", "start"})
    => ( mix_exs[1] \in Scenario2
         => /\ call.fn = "build"
               => call.ret = Ok(Some(BuildPhase("mix escript.build")))
            /\ call.fn = "start"
               => call.ret = Ok(Some(StartPhase("./demo"))) )

C4_Witness ==
    /\ mix_exs # None
    /\ mix_exs[1] \in Scenario2
    /\ call.fn = "start"
    /\ call.ret = Ok(Some(StartPhase("./demo")))

(***************************************************************************)
(* C5: build returns `mix escript.build` exactly when the mix.exs exists,  *)
(* is_escript is true and app_name is present, and no phase otherwise;     *)
(* start returns "./" and app_name without its first character under that  *)
(* condition, and `mix run --no-halt` otherwise.  Fails: start slices      *)
(* app_name at byte 1 and panics when its first character is longer than   *)
(* one byte.                                                               *)
(***************************************************************************)
C5_BuildAndStartFollowEscript ==
    /\ call.fn = "build"
       => call.ret = IF EscriptBranch
                     THEN Ok(Some(BuildPhase("mix escript.build")))
                     ELSE Ok(None)
    /\ call.fn = "start"
       => /\ call.ret.kind = "Ok"
          /\ call.ret.value =
                 IF EscriptBranch
                 THEN LET app_name == Scanned[1].app_name[1]
                      IN  Some(StartPhase(
                              "./" \o SubSeq(app_name, 2, Len(app_name))))
                 ELSE Some(StartPhase("mix run --no-halt"))

(***************************************************************************)
(* C6: when the mix.exs is absent, or declares no `elixir:`, or declares a *)
(* version expression in which the version pattern finds nothing, or the   *)
(* extracted version exceeds every catalog floor, the resolver reports no  *)
(* match and setup succeeds with exactly one package, `elixir`.            *)
(***************************************************************************)
NoVersionDeclared == Scanned = None \/ Scanned[1].elixir_version = None

NothingToResolve(version_expr) ==
    \/ VersionCapture(version_expr) = None
    \/ Extracts(version_expr) /\ ExceedsCatalog(ExtractedVersion(version_expr))

C7_ResolutionNeverErrs ==
    call.fn \in {"get_closest_version", "get_nix_elixir_pkg"}
    => /\ VersionCapture(str) # None => Extracts(str)
       /\ call.ret.kind = "Ok"

(***************************************************************************)
(* C8: when the text holds `@version "1.10"` and, later, `key: version`    *)
(* (key app or elixir) followed by a comma or the end of the line, the     *)
(* MixProject returned by parse_mix_project records "1.10" under that key. *)
(* Fails: the value group [^,]+ runs past the end of the line.             *)
(***************************************************************************)
DeclaredLater(text, constant, declaration) ==
    \E i, j \in 1..Len(text) :
        /\ i < j
        /\ OccursAt(text, constant, i)
        /\ OccursAt(text, declaration, j)
        /\ LET after == j + Len(declaration)
           IN  \/ after = Len(text) + 1
               \/ Ch(text, after) \in {",", "\n"}

C8_SuperglobalRoundTrips ==
    (call.fn = "parse_mix_project" /\ mix_exs # None)
    => /\ DeclaredLater(mix_exs[1], "@version \"1.10\"", "app: version")
          => call.ret.value[1].app_name = Some("1.10")
       /\ DeclaredLater(mix_exs[1], "@version \"1.10\"", "elixir: version")
          => call.ret.value[1].elixir_version = Some("1.10")

(***************************************************************************)
(* C9: for version expressions a and b from which numbers va < vb are      *)
(* extracted and for which get_closest_version returns an entry, the floor *)
(* of the entry returned for b is not lower than that of the entry         *)
(* returned for a.  The state holds the call on str; it is compared with   *)
(* the call on every other version expression.                             *)
(***************************************************************************)
Resolves(s) ==
    /\ Extracts(s)
    /\ get_closest_version(s).value # None

\* <<version, floor of the entry returned>> of every expression that resolves.
ResolvedFloors ==
    { <<ExtractedVersion(s), FloorOfPkg(get_closest_version(s).value[1])>> :
        s \in {x \in VersionExprs : Resolves(x)} }

C9_ResolutionIsMonotonic ==
    ( /\ call.fn = "get_closest_version"
      /\ Extracts(str)
      /\ call.ret.kind = "Ok"
      /\ call.ret.value # None )
    => \A other \in ResolvedFloors :
           /\ ExtractedVersion(str) < other[1]
              => FloorOfPkg(call.ret.value[1]) <= other[2]
           /\ other[1] < ExtractedVersion(str)
              => other[2] <= FloorOfPkg(call.ret.value[1])

C9_Witness ==
    /\ call.fn = "get_closest_version"
    /\ Extracts(str)
    /\ call.ret.kind = "Ok"
    /\ call.ret.value # None
    /\ \E other \in ResolvedFloors : ExtractedVersion(str) < other[1]

(***************************************************************************)
(* C10: get_closest_version returns elixir_1_9 or no match, never a later  *)
(* catalog entry, so get_nix_elixir_pkg (the package setup installs) is    *)
(* elixir_1_9 or the default `elixir`.                                     *)
(***************************************************************************)
C10_OnlyFirstEntryOrDefault ==
    /\ (call.fn = "get_closest_version" /\ call.ret.kind = "Ok")
       => call.ret.value \in {None, Some("elixir_1_9")}
    /\ (call.fn = "get_nix_elixir_pkg" /\ call.ret.kind = "Ok")
       => call.ret.value \in {"elixir_1_9", DEFAULT_ELIXIR_PKG_NAME}

\* The version is the floor of the elixir_1_10 entry, and elixir_1_9 is
\* returned.
C10_Witness ==
    /\ call.fn = "get_closest_version"
    /\ Extracts(str)
    /\ ExtractedVersion(str) = AVAILABLE_ELIXIR_VERSIONS[2].floor
    /\ call.ret = Ok(Some("elixir_1_9"))

====
